---- MODULE Spec2Model ----
(***************************************************************************)
(* Model of the Twilio <-> Deepgram relay of src/main.py: one session of   *)
(* twilio_handler with its three asyncio tasks (sts_sender, sts_receiver,  *)
(* twilio_receiver), the two queues they share and the Turn Controller     *)
(* (handle_text_message).  A step of the model is what one task runs       *)
(* between two suspension points (await) of the cooperative event loop.    *)
(***************************************************************************)
EXTENDS Integers, Sequences, FiniteSets, TLC

(***************************************************************************)
(* Bounds of the model.                                                    *)
(***************************************************************************)
\* Frame size of the chunk buffer.  src/main.py:226 sets 160 * 20 = 3200;
\* the slicing loop only compares lengths with it, so the model scales it.
BUFFER_SIZE == 2
\* Start events the telephony transport sends in one session.
MaxStarts == 2
\* Agent messages delivered by the agent transport in one session.
MaxAgentMsgs == 2
\* Agent messages that arrive before the telephony transport sends its first
\* event, in a session that starts with such a backlog.
MaxBacklog == 3

\* Longest media chunk: long enough for one chunk to yield two frames.
MaxChunk == 2 * BUFFER_SIZE
\* Most bytes received in one session.
MaxBytes == 2 * BUFFER_SIZE + 1

(***************************************************************************)
(* Python values.                                                          *)
(***************************************************************************)
\* None, where it has to be told from a string.
NoneVal == "<None>"
\* dict.get(k) or "" for text fields: None and "" are both falsy.
GetText(d, k) == IF k \in DOMAIN d THEN d[k] ELSE <<>>
\* truthiness of dict.get(k) for a flag: a missing key gives None.
GetFlag(d, k) == IF k \in DOMAIN d THEN d[k] ELSE FALSE
\* dict.get(k) for an identifier; "" stands for a falsy value.
GetId(d, k) == IF k \in DOMAIN d THEN d[k] ELSE NoneVal
Truthy(id) == id # NoneVal /\ id # ""
\* a or b, for text and for identifiers
OrText(a, b) == IF a # <<>> THEN a ELSE b
OrId(a, b) == IF Truthy(a) THEN a ELSE b
\* str.strip(): text is a sequence of characters
Whitespace == {" ", "\n"}
RECURSIVE lstrip(_)
lstrip(t) == IF t # <<>> /\ Head(t) \in Whitespace THEN lstrip(Tail(t)) ELSE t
RECURSIVE rstrip(_)
rstrip(t) ==
    IF t # <<>> /\ t[Len(t)] \in Whitespace THEN rstrip(SubSeq(t, 1, Len(t) - 1)) ELSE t
strip(t) == rstrip(lstrip(t))

(***************************************************************************)
(* base64: bytes are 0..255, base64 text is a sequence of sextets 0..63    *)
(* with 64 standing for the padding character "=".                         *)
(***************************************************************************)
Pad == 64
RECURSIVE b64encode(_)
b64encode(bs) ==
    IF bs = <<>> THEN <<>>
    ELSE IF Len(bs) = 1 THEN
        << bs[1] \div 4, (bs[1] % 4) * 16, Pad, Pad >>
    ELSE IF Len(bs) = 2 THEN
        << bs[1] \div 4, (bs[1] % 4) * 16 + bs[2] \div 16, (bs[2] % 16) * 4, Pad >>
    ELSE
        << bs[1] \div 4, (bs[1] % 4) * 16 + bs[2] \div 16,
           (bs[2] % 16) * 4 + bs[3] \div 64, bs[3] % 64 >>
        \o b64encode(SubSeq(bs, 4, Len(bs)))

\* binascii.Error: the text is not a whole number of 4-sextet groups.
b64valid(s) == Len(s) % 4 = 0

RECURSIVE b64decode(_)
b64decode(s) ==
    IF Len(s) < 4 THEN <<>>
    ELSE LET b1 == s[1] * 4 + s[2] \div 16
             b2 == (s[2] % 16) * 16 + s[3] \div 4
             b3 == (s[3] % 4) * 64 + s[4]
         IN  IF s[3] = Pad THEN << b1 >>
             ELSE IF s[4] = Pad THEN << b1, b2 >>
             ELSE << b1, b2, b3 >> \o b64decode(SubSeq(s, 5, Len(s)))

(***************************************************************************)
(* State.                                                                  *)
(***************************************************************************)
VARIABLES
    \* twilio_handler
    hPc,              \* "gather" | "done" | "raised"
    sts_ws,           \* agent transport: "open" | "closed_ok" | "closed_err"
    audio_queue,      \* asyncio.Queue of frames
    streamsid_queue,  \* asyncio.Queue of session identifiers
    \* twilio_receiver
    twPc,             \* "iter" | "done"
    twEnd,            \* why the read loop ended: "none" | "stop" | "closed" | "error"
    inbuffer,         \* bytearray
    \* sts_sender
    sndPc,            \* "get" | "raised"
    \* sts_receiver and handle_text_message
    rcvPc,            \* "get_sid" | "iter" | "barge_in" | "extract" | "rag" | "inject" | "done" | "raised"
    streamsid,        \* local of sts_receiver
    decoded,          \* the control event being handled
    turn,             \* locals of handle_text_message: transcript, response_id, context
    \* the transports
    sts_inbox,        \* agent messages received by the library, not yet iterated
    sts_sent,         \* text messages sent on the agent transport, in order
    sts_audio,        \* binary messages sent on the agent transport, in order
    twilio_sent,      \* events sent on the telephony transport, in order
    \* history
    received,         \* the caller's audio bytes carried by the media events so far
    enqueued,         \* frames put on audio_queue so far
    starts,           \* identifiers of the start events consumed, in order
    nAgent,           \* agent messages delivered
    rag_calls,        \* calls of rag_retrieve
    taken,            \* agent messages the receiver's iteration has yielded, in order
    log               \* what handle_text_message did for the current message

vars == << hPc, sts_ws, audio_queue, streamsid_queue, twPc, twEnd, inbuffer, sndPc,
           rcvPc, streamsid, decoded, turn, sts_inbox, sts_sent, sts_audio, twilio_sent,
           received, enqueued, starts, nAgent, rag_calls, taken, log >>

handlerVars == << hPc, sts_ws >>
twilioVars == << twPc, twEnd, inbuffer, streamsid_queue, received, enqueued, starts >>
receiverVars == << rcvPc, streamsid, decoded, turn, twilio_sent, rag_calls, taken, log >>

NoEvent == [type |-> "<none>"]
NoTurn == [transcript |-> <<>>, response_id |-> NoneVal, context |-> <<>>]

\* twilio_handler up to asyncio.gather: accept, the two queues, sts_connect,
\* the configuration sent, the three tasks started.
Init ==
    /\ hPc = "gather"
    /\ sts_ws = "open"
    /\ audio_queue = <<>>
    /\ streamsid_queue = <<>>
    /\ twPc = "iter"
    /\ twEnd = "none"
    /\ inbuffer = <<>>
    /\ sndPc = "get"
    /\ rcvPc = "get_sid"
    /\ streamsid = NoneVal
    /\ decoded = NoEvent
    /\ turn = NoTurn
    /\ sts_inbox = <<>>
    /\ sts_sent = << [kind |-> "config"] >>
    /\ sts_audio = <<>>
    /\ twilio_sent = <<>>
    /\ received = <<>>
    /\ enqueued = <<>>
    /\ starts = <<>>
    /\ nAgent = 0
    /\ rag_calls = 0
    /\ taken = <<>>
    /\ log = <<>>

(***************************************************************************)
(* twilio_receiver.                                                        *)
(***************************************************************************)
\* A telephony text message: JSON text of a dict, or text json.loads rejects.
TwilioJson(d) == [json |-> TRUE, data |-> d]
TwilioGarbage == [json |-> FALSE]
StartMsg(sid) == TwilioJson([event |-> "start", start |-> [streamSid |-> sid]])
MediaMsg(payload) == TwilioJson([event |-> "media", media |-> [payload |-> payload]])
StopMsg == TwilioJson([event |-> "stop"])
MarkMsg == TwilioJson([event |-> "mark"])

\* The telephony side names the session's stream "A" or "B"; a start event it
\* repeats later names another stream, "C".
StreamSids == IF starts = <<>> THEN {"A", "B"} ELSE {"C"}

\* The bytes of the caller's audio are numbered in order, so every byte is
\* distinct and a lost, repeated or displaced byte shows.
NextBytes(n) == [i \in 1..n |-> (Len(received) + i) % 256]

MalformedTwilioMsgs ==
    { TwilioGarbage,
      TwilioJson([sequenceNumber |-> 1]),
      TwilioJson([event |-> "start", start |-> [callSid |-> "c"]]),
      TwilioJson([event |-> "media", media |-> [track |-> "inbound"]]),
      TwilioJson([event |-> "media", media |-> [payload |-> << 0 >>]]) }

\* The slicing loop with the remainder taken one byte too far.
RECURSIVE DrainFramesSkipping(_, _)
DrainFramesSkipping(buf, q) ==
    IF Len(buf) >= BUFFER_SIZE
    THEN DrainFramesSkipping(SubSeq(buf, BUFFER_SIZE + 2, Len(buf)),
                             Append(q, SubSeq(buf, 1, BUFFER_SIZE)))
    ELSE [inbuffer |-> buf, audio_queue |-> q]

\* The slicing loop run only while more than a frame is buffered.
RECURSIVE DrainFramesLate(_, _)
DrainFramesLate(buf, q) ==
    IF Len(buf) > BUFFER_SIZE
    THEN DrainFramesLate(SubSeq(buf, BUFFER_SIZE + 1, Len(buf)),
                         Append(q, SubSeq(buf, 1, BUFFER_SIZE)))
    ELSE [inbuffer |-> buf, audio_queue |-> q]

\* The slicing loop followed by a flush of what is left as a short frame.
RECURSIVE DrainFramesFlushing(_, _)
DrainFramesFlushing(buf, q) ==
    IF Len(buf) >= BUFFER_SIZE
    THEN DrainFramesFlushing(SubSeq(buf, BUFFER_SIZE + 1, Len(buf)),
                             Append(q, SubSeq(buf, 1, BUFFER_SIZE)))
    ELSE [inbuffer |-> <<>>,
          audio_queue |-> IF buf = <<>> THEN q ELSE Append(q, buf)]

\* the while loop of lines 247-249
RECURSIVE DrainFrames(_, _)
DrainFrames(buf, q) ==
    IF Len(buf) >= BUFFER_SIZE
    THEN DrainFrames(SubSeq(buf, BUFFER_SIZE + 1, Len(buf)),
                     Append(q, SubSeq(buf, 1, BUFFER_SIZE)))
    ELSE [inbuffer |-> buf, audio_queue |-> q]

\* Whether the try block raises on this message (lines 231-239).
TwilioRaises(msg) ==
    \/ ~msg.json
    \/ "event" \notin DOMAIN msg.data
    \/ /\ msg.data["event"] = "start"
       /\ \/ "start" \notin DOMAIN msg.data
          \/ "streamSid" \notin DOMAIN msg.data["start"]
    \/ /\ msg.data["event"] = "media"
       /\ \/ "media" \notin DOMAIN msg.data
          \/ "payload" \notin DOMAIN msg.data["media"]
          \/ ~b64valid(msg.data["media"]["payload"])

\* The loop body with an except branch that logs the error and reads on.
TwilioBodyContinuing(msg) ==
    IF TwilioRaises(msg) THEN
        /\ twEnd' = "error"
        /\ UNCHANGED << twPc, inbuffer, audio_queue, streamsid_queue, enqueued >>
    ELSE IF msg.data["event"] = "stop" THEN
        /\ twPc' = "done"
        /\ twEnd' = "stop"
        /\ UNCHANGED << inbuffer, audio_queue, streamsid_queue, enqueued >>
    ELSE
        LET event == msg.data["event"]
            chunk == IF event = "media" THEN b64decode(msg.data["media"]["payload"])
                     ELSE <<>>
            r == DrainFrames(inbuffer \o chunk, audio_queue)
        IN  /\ streamsid_queue' =
                 IF event = "start"
                 THEN Append(streamsid_queue, msg.data["start"]["streamSid"])
                 ELSE streamsid_queue
            /\ inbuffer' = r.inbuffer
            /\ audio_queue' = r.audio_queue
            /\ enqueued' = enqueued \o
                 SubSeq(r.audio_queue, Len(audio_queue) + 1, Len(r.audio_queue))
            /\ UNCHANGED << twPc, twEnd >>

\* One pass of the loop body on a message (lines 230-253): no await inside.
TwilioBody(msg) ==
    IF TwilioRaises(msg) THEN
        /\ twPc' = "done"
        /\ twEnd' = "error"
        /\ UNCHANGED << inbuffer, audio_queue, streamsid_queue, enqueued >>
    ELSE IF msg.data["event"] = "stop" THEN
        /\ twPc' = "done"
        /\ twEnd' = "stop"
        /\ UNCHANGED << inbuffer, audio_queue, streamsid_queue, enqueued >>
    ELSE
        LET event == msg.data["event"]
            chunk == IF event = "media" THEN b64decode(msg.data["media"]["payload"])
                     ELSE <<>>
            r == DrainFrames(inbuffer \o chunk, audio_queue)
        IN  /\ streamsid_queue' =
                 IF event = "start"
                 THEN Append(streamsid_queue, msg.data["start"]["streamSid"])
                 ELSE streamsid_queue
            /\ inbuffer' = r.inbuffer
            /\ audio_queue' = r.audio_queue
            /\ enqueued' = enqueued \o
                 SubSeq(r.audio_queue, Len(audio_queue) + 1, Len(r.audio_queue))
            /\ UNCHANGED << twPc, twEnd >>

TwilioIterate(msg) ==
    /\ twPc = "iter"
    /\ TwilioBody(msg)
    /\ UNCHANGED << handlerVars, sndPc, receiverVars, sts_inbox, sts_sent, sts_audio, nAgent >>

TwilioStart ==
    /\ Len(starts) < MaxStarts
    /\ \E sid \in StreamSids :
          /\ TwilioIterate(StartMsg(sid))
          /\ starts' = Append(starts, sid)
    /\ UNCHANGED received

TwilioMedia ==
    \E n \in 0..MaxChunk :
        /\ Len(received) + n <= MaxBytes
        /\ TwilioIterate(MediaMsg(b64encode(NextBytes(n))))
        /\ received' = received \o NextBytes(n)
    /\ UNCHANGED starts

TwilioStop == TwilioIterate(StopMsg) /\ UNCHANGED << starts, received >>

TwilioMark == TwilioIterate(MarkMsg) /\ UNCHANGED << starts, received >>

TwilioMalformed ==
    /\ \E msg \in MalformedTwilioMsgs : TwilioIterate(msg)
    /\ UNCHANGED << starts, received >>

\* The telephony transport closes: iter_text() ends and the loop with it.
TwilioClosed ==
    /\ twPc = "iter"
    /\ twPc' = "done"
    /\ twEnd' = "closed"
    /\ UNCHANGED << handlerVars, audio_queue, streamsid_queue, inbuffer, received,
                    enqueued, starts, sndPc, receiverVars, sts_inbox, sts_sent, sts_audio, nAgent >>

(***************************************************************************)
(* sts_sender.                                                             *)
(***************************************************************************)
\* sts_sender over a queue that hands out its newest frame first.
SenderSendNewest ==
    /\ sndPc = "get"
    /\ audio_queue # <<>>
    /\ audio_queue' = SubSeq(audio_queue, 1, Len(audio_queue) - 1)
    /\ IF sts_ws = "open"
       THEN /\ sts_audio' = Append(sts_audio, audio_queue[Len(audio_queue)])
            /\ UNCHANGED sndPc
       ELSE /\ sndPc' = "raised"
            /\ UNCHANGED sts_audio
    /\ UNCHANGED << handlerVars, twilioVars, receiverVars, sts_inbox, sts_sent, nAgent >>

\* audio_queue.get() returns the oldest frame, sts_ws.send forwards it; a send
\* on a closed connection raises ConnectionClosed and ends the task.
SenderSend ==
    /\ sndPc = "get"
    /\ audio_queue # <<>>
    /\ audio_queue' = Tail(audio_queue)
    /\ IF sts_ws = "open"
       THEN /\ sts_audio' = Append(sts_audio, Head(audio_queue))
            /\ UNCHANGED sndPc
       ELSE /\ sndPc' = "raised"
            /\ UNCHANGED sts_audio
    /\ UNCHANGED << handlerVars, twilioVars, receiverVars, sts_inbox, sts_sent, nAgent >>

(***************************************************************************)
(* Agent messages.                                                         *)
(***************************************************************************)
\* A binary frame, a text frame holding the JSON text of a dict, or a text
\* frame json.loads rejects.
BinaryMsg(bytes) == [binary |-> TRUE, data |-> bytes]
TextMsg(d) == [binary |-> FALSE, json |-> TRUE, data |-> d]
GarbageText == [binary |-> FALSE, json |-> FALSE]

Hi == << "h", "i" >>
Yo == << "y", "o" >>

\* A dict from optional fields: each field is {} (key absent) or {value}.
Keys == {"type", "transcript", "text", "is_final", "alternatives", "response_id", "id"}
Dict(f) ==
    [k \in {j \in DOMAIN f : f[j] # {}} |-> CHOOSE v \in f[k] : TRUE]
Event(type, transcript, text, is_final, alternatives, response_id, id) ==
    Dict([type |-> type, transcript |-> transcript, text |-> text,
          is_final |-> is_final, alternatives |-> alternatives,
          response_id |-> response_id, id |-> id])

Alternatives ==
    { [transcript |-> Hi, final |-> TRUE],
      [text |-> Yo, is_final |-> TRUE],
      [transcript |-> Hi, final |-> FALSE],
      [transcript |-> Hi] }

\* Every shape of control event the extractor tells apart.
AllControlEvents ==
    { Event(ty, tr, tx, fi, al, ri, id) :
        ty \in { {"UserStartedSpeaking"}, {"ConversationText"} },
        tr \in { {}, {<<>>}, {<< " " >>}, {Hi} },
        tx \in { {}, {Yo} },
        fi \in { {}, {TRUE}, {FALSE} },
        al \in { {}, {<<>>} } \cup { {<< a >>} : a \in Alternatives },
        ri \in { {}, {"r1"} },
        id \in { {}, {"r2"} } }

\* The messages the agent transport delivers in a session of the relay.
AgentMsgs ==
    { BinaryMsg(<< 1 >>),
      BinaryMsg(<< 2, 255 >>),
      GarbageText,
      TextMsg([type |-> "UserStartedSpeaking", transcript |-> << " ", "h", "i" >>,
               is_final |-> TRUE, id |-> "r1"]),
      TextMsg([type |-> "ConversationText", transcript |-> Yo, is_final |-> TRUE,
               response_id |-> "r2"]),
      TextMsg([type |-> "ConversationText", transcript |-> Hi, is_final |-> FALSE,
               response_id |-> "r3"]) }

\* The library receives a message while the connection is open.
AgentDeliver ==
    /\ sts_ws = "open"
    /\ nAgent < MaxAgentMsgs
    /\ \E m \in AgentMsgs : sts_inbox' = Append(sts_inbox, m)
    /\ nAgent' = nAgent + 1
    /\ UNCHANGED << handlerVars, audio_queue, twilioVars, sndPc, receiverVars, sts_sent,
                    sts_audio >>

(***************************************************************************)
(* rag_retrieve.                                                           *)
(***************************************************************************)
Fallback == << "No relevant context." >>

\* "\n".join(contexts)
RECURSIVE Join(_)
Join(cs) ==
    IF cs = <<>> THEN <<>>
    ELSE IF Len(cs) = 1 THEN << cs[1] >>
    ELSE << cs[1], "\n" >> \o Join(Tail(cs))

\* lines 78-83, on the matches of the index query
RECURSIVE Answers(_)
Answers(matches) ==
    IF matches = <<>> THEN <<>>
    ELSE (IF "metadata" \in DOMAIN Head(matches)
             /\ "answer" \in DOMAIN Head(matches).metadata
          THEN << Head(matches).metadata.answer >> ELSE <<>>)
         \o Answers(Tail(matches))

rag_retrieve(matches) ==
    IF Answers(matches) # <<>> THEN Join(Answers(matches)) ELSE Fallback

\* What the index query may return (top_k = 3).
QueryResults ==
    { <<>>,
      << [id |-> "m0"],
         [id |-> "m1", metadata |-> [answer |-> "Course A info"]],
         [id |-> "m2", metadata |-> [answer |-> "Course B info"]] >>,
      << [id |-> "m3", metadata |-> [question |-> "q"]] >> }

(***************************************************************************)
(* _extract_transcript_from_deepgram.                                       *)
(***************************************************************************)
\* The extractor looking into the alternatives list whatever the direct fields
\* hold.
extract_alternatives_first(d) ==
    LET response_id == OrId(GetId(d, "response_id"), GetId(d, "id"))
        direct == OrText(GetText(d, "transcript"), GetText(d, "text"))
        flag == IF "is_final" \in DOMAIN d THEN d["is_final"] ELSE FALSE
        alts == IF "alternatives" \in DOMAIN d THEN d["alternatives"] ELSE <<>>
        useAlts == "alternatives" \in DOMAIN d /\ alts # <<>>
        transcript ==
            IF useAlts
            THEN OrText(GetText(alts[1], "transcript"), GetText(alts[1], "text"))
            ELSE direct
        is_final ==
            IF useAlts /\ (GetFlag(alts[1], "final") \/ GetFlag(alts[1], "is_final"))
            THEN TRUE ELSE flag
    IN  [transcript |-> strip(transcript), is_final |-> is_final,
         response_id |-> response_id]

\* lines 88-107
extract_transcript_from_deepgram(d) ==
    LET response_id == OrId(GetId(d, "response_id"), GetId(d, "id"))
        direct == OrText(GetText(d, "transcript"), GetText(d, "text"))
        flag == IF "is_final" \in DOMAIN d THEN d["is_final"] ELSE FALSE
        alts == IF "alternatives" \in DOMAIN d THEN d["alternatives"] ELSE <<>>
        useAlts == direct = <<>> /\ "alternatives" \in DOMAIN d /\ alts # <<>>
        transcript ==
            IF useAlts
            THEN OrText(GetText(alts[1], "transcript"), GetText(alts[1], "text"))
            ELSE direct
        is_final ==
            IF useAlts /\ (GetFlag(alts[1], "final") \/ GetFlag(alts[1], "is_final"))
            THEN TRUE ELSE flag
    IN  [transcript |-> strip(transcript), is_final |-> is_final,
         response_id |-> response_id]

(***************************************************************************)
(* sts_receiver, handle_barge_in, handle_text_message.                     *)
(***************************************************************************)
\* twilio_sent records what the receiver hands to twilio_ws.send_text; the
\* telephony transport is taken to accept it.
ClearEvent(sid) == [event |-> "clear", streamSid |-> sid]
MediaEvent(sid, raw) ==
    [event |-> "media", streamSid |-> sid, media |-> [payload |-> b64encode(raw)]]

\* the f-string of lines 145-179, stripped: the fixed text around the two
\* interpolated values
Instructions(transcript, context) ==
    << "You are Skillorea AI, ...", "User Question:" >> \o transcript
    \o << "Retrieved Context (your ONLY knowledge):" >> \o context
    \o << "Using ONLY the retrieved context, ..." >>
ResponseCreate(response_id, transcript, context) ==
    [kind |-> "response.create", response_id |-> response_id,
     instructions |-> Instructions(transcript, context)]

\* The receiver polling the handoff once and going on without an identifier.
RecvGetSidPolling ==
    /\ rcvPc = "get_sid"
    /\ streamsid' = IF streamsid_queue # <<>> THEN Head(streamsid_queue) ELSE NoneVal
    /\ streamsid_queue' = IF streamsid_queue # <<>> THEN Tail(streamsid_queue) ELSE <<>>
    /\ rcvPc' = "iter"
    /\ UNCHANGED << handlerVars, audio_queue, twPc, twEnd, inbuffer, received, enqueued,
                    starts, sndPc, decoded, turn, twilio_sent, rag_calls, taken, log,
                    sts_inbox, sts_sent, sts_audio, nAgent >>

\* The receiver taking the identifier published last.
RecvGetSidNewest ==
    /\ rcvPc = "get_sid"
    /\ streamsid_queue # <<>>
    /\ streamsid' = streamsid_queue[Len(streamsid_queue)]
    /\ streamsid_queue' = SubSeq(streamsid_queue, 1, Len(streamsid_queue) - 1)
    /\ rcvPc' = "iter"
    /\ UNCHANGED << handlerVars, audio_queue, twPc, twEnd, inbuffer, received, enqueued,
                    starts, sndPc, decoded, turn, twilio_sent, rag_calls, taken, log,
                    sts_inbox, sts_sent, sts_audio, nAgent >>

\* streamsid = await streamsid_queue.get()
RecvGetSid ==
    /\ rcvPc = "get_sid"
    /\ streamsid_queue # <<>>
    /\ streamsid' = Head(streamsid_queue)
    /\ streamsid_queue' = Tail(streamsid_queue)
    /\ rcvPc' = "iter"
    /\ UNCHANGED << handlerVars, audio_queue, twPc, twEnd, inbuffer, received, enqueued,
                    starts, sndPc, decoded, turn, twilio_sent, rag_calls, taken, log,
                    sts_inbox, sts_sent, sts_audio, nAgent >>

\* The receiver putting each media event in front of the earlier ones.
RecvBinaryPrepending ==
    /\ rcvPc = "iter"
    /\ sts_inbox # <<>>
    /\ Head(sts_inbox).binary
    /\ sts_inbox' = Tail(sts_inbox)
    /\ twilio_sent' = << MediaEvent(streamsid, Head(sts_inbox).data) >> \o twilio_sent
    /\ taken' = Append(taken, Head(sts_inbox))
    /\ UNCHANGED << handlerVars, audio_queue, twilioVars, sndPc, rcvPc, streamsid,
                    decoded, turn, rag_calls, log, sts_sent, sts_audio, nAgent >>

\* The iteration yields a binary message: it is wrapped and sent (lines 212-220).
RecvBinary ==
    /\ rcvPc = "iter"
    /\ sts_inbox # <<>>
    /\ Head(sts_inbox).binary
    /\ sts_inbox' = Tail(sts_inbox)
    /\ twilio_sent' = Append(twilio_sent, MediaEvent(streamsid, Head(sts_inbox).data))
    /\ taken' = Append(taken, Head(sts_inbox))
    /\ UNCHANGED << handlerVars, audio_queue, twilioVars, sndPc, rcvPc, streamsid,
                    decoded, turn, rag_calls, log, sts_sent, sts_audio, nAgent >>

\* The receiver taking the next text message while the retriever is still
\* working on the previous one.
RecvTextOverlapping ==
    /\ rcvPc \in {"iter", "rag"}
    /\ sts_inbox # <<>>
    /\ ~Head(sts_inbox).binary
    /\ sts_inbox' = Tail(sts_inbox)
    /\ IF Head(sts_inbox).json
       THEN /\ decoded' = Head(sts_inbox).data
            /\ rcvPc' = "barge_in"
            /\ log' = <<>>
       ELSE /\ rcvPc' = "raised"
            /\ log' = <<>>
            /\ UNCHANGED decoded
    /\ taken' = Append(taken, Head(sts_inbox))
    /\ UNCHANGED << handlerVars, audio_queue, twilioVars, sndPc, streamsid, turn,
                    twilio_sent, rag_calls, sts_sent, sts_audio, nAgent >>

\* The iteration yields a text message: json.loads, then handle_text_message
\* is entered (lines 205-208).  json.loads raising ends the task.
RecvText ==
    /\ rcvPc = "iter"
    /\ sts_inbox # <<>>
    /\ ~Head(sts_inbox).binary
    /\ sts_inbox' = Tail(sts_inbox)
    /\ IF Head(sts_inbox).json
       THEN /\ decoded' = Head(sts_inbox).data
            /\ rcvPc' = "barge_in"
            /\ log' = <<>>
       ELSE /\ rcvPc' = "raised"
            /\ log' = <<>>
            /\ UNCHANGED decoded
    /\ taken' = Append(taken, Head(sts_inbox))
    /\ UNCHANGED << handlerVars, audio_queue, twilioVars, sndPc, streamsid, turn,
                    twilio_sent, rag_calls, sts_sent, sts_audio, nAgent >>

\* handle_text_message without the call of handle_barge_in.
BargeInSkipped ==
    /\ rcvPc = "barge_in"
    /\ rcvPc' = "extract"
    /\ UNCHANGED << handlerVars, audio_queue, twilioVars, sndPc, streamsid, decoded,
                    turn, twilio_sent, log, rag_calls, taken, sts_inbox, sts_sent,
                    sts_audio, nAgent >>

\* await handle_barge_in(decoded, twilio_ws, streamsid)
BargeIn ==
    /\ rcvPc = "barge_in"
    /\ rcvPc' = "extract"
    /\ IF GetId(decoded, "type") = "UserStartedSpeaking"
       THEN /\ twilio_sent' = Append(twilio_sent, ClearEvent(streamsid))
            /\ log' = Append(log, "clear")
       ELSE UNCHANGED << twilio_sent, log >>
    /\ UNCHANGED << handlerVars, audio_queue, twilioVars, sndPc, streamsid, decoded,
                    turn, rag_calls, taken, sts_inbox, sts_sent, sts_audio, nAgent >>

\* handle_text_message without the early return on a partial transcript.
ExtractIgnoringFinality ==
    /\ rcvPc = "extract"
    /\ LET e == extract_transcript_from_deepgram(decoded)
       IN  IF e.transcript = <<>>
           THEN /\ rcvPc' = "iter"
                /\ log' = Append(log, "extract")
                /\ UNCHANGED << turn, rag_calls >>
           ELSE /\ rcvPc' = "rag"
                /\ log' = log \o << "extract", "rag" >>
                /\ turn' = [transcript |-> e.transcript, response_id |-> e.response_id,
                            context |-> <<>>]
                /\ rag_calls' = rag_calls + 1
    /\ UNCHANGED << handlerVars, audio_queue, twilioVars, sndPc, streamsid, decoded,
                    twilio_sent, taken, sts_inbox, sts_sent, sts_audio, nAgent >>

\* Lines 125-138: the extraction, the two early returns and the call of
\* rag_retrieve, which suspends in asyncio.to_thread.
Extract ==
    /\ rcvPc = "extract"
    /\ LET e == extract_transcript_from_deepgram(decoded)
       IN  IF e.transcript = <<>> \/ ~e.is_final
           THEN /\ rcvPc' = "iter"
                /\ log' = Append(log, "extract")
                /\ UNCHANGED << turn, rag_calls >>
           ELSE /\ rcvPc' = "rag"
                /\ log' = log \o << "extract", "rag" >>
                /\ turn' = [transcript |-> e.transcript, response_id |-> e.response_id,
                            context |-> <<>>]
                /\ rag_calls' = rag_calls + 1
    /\ UNCHANGED << handlerVars, audio_queue, twilioVars, sndPc, streamsid, decoded,
                    twilio_sent, taken, sts_inbox, sts_sent, sts_audio, nAgent >>

\* rag_retrieve resumes from the embedding thread, queries the index and returns.
RagReturn ==
    /\ rcvPc = "rag"
    /\ \E matches \in QueryResults :
          turn' = [turn EXCEPT !.context = rag_retrieve(matches)]
    /\ rcvPc' = "inject"
    /\ UNCHANGED << handlerVars, audio_queue, twilioVars, sndPc, streamsid, decoded,
                    twilio_sent, rag_calls, taken, log, sts_inbox, sts_sent, sts_audio, nAgent >>

\* rag_retrieve raises and nothing catches it: the receiver task ends.
RagFailPropagates ==
    /\ rcvPc = "rag"
    /\ log' = Append(log, "rag_error")
    /\ rcvPc' = "raised"
    /\ UNCHANGED << handlerVars, audio_queue, twilioVars, sndPc, streamsid, decoded,
                    turn, twilio_sent, rag_calls, taken, sts_inbox, sts_sent, sts_audio,
                    nAgent >>

\* rag_retrieve raises: the except branch of lines 139-141.
RagFail ==
    /\ rcvPc = "rag"
    /\ turn' = [turn EXCEPT !.context = Fallback]
    /\ log' = Append(log, "rag_error")
    /\ rcvPc' = "inject"
    /\ UNCHANGED << handlerVars, audio_queue, twilioVars, sndPc, streamsid, decoded,
                    twilio_sent, rag_calls, taken, sts_inbox, sts_sent, sts_audio, nAgent >>

\* await sts_ws.send(json.dumps(payload)); on a closed connection it raises.
Inject ==
    /\ rcvPc = "inject"
    /\ IF sts_ws = "open"
       THEN /\ sts_sent' = Append(sts_sent,
                 ResponseCreate(turn.response_id, turn.transcript, turn.context))
            /\ log' = Append(log, "inject")
            /\ rcvPc' = "iter"
       ELSE /\ rcvPc' = "raised"
            /\ UNCHANGED << sts_sent, log >>
    /\ UNCHANGED << handlerVars, audio_queue, twilioVars, sndPc, streamsid, decoded,
                    turn, twilio_sent, rag_calls, taken, sts_inbox, sts_audio, nAgent >>

\* The agent transport closes: normally, or with an error.
AgentClose ==
    /\ sts_ws = "open"
    /\ sts_ws' \in {"closed_ok", "closed_err"}
    /\ UNCHANGED << hPc, audio_queue, twilioVars, sndPc, receiverVars, sts_inbox,
                    sts_sent, sts_audio, nAgent >>

\* The iteration over a closed connection ends once the received messages are
\* used up: quietly after a normal close, with ConnectionClosedError otherwise.
RecvEnd ==
    /\ rcvPc = "iter"
    /\ sts_inbox = <<>>
    /\ sts_ws # "open"
    /\ rcvPc' = IF sts_ws = "closed_ok" THEN "done" ELSE "raised"
    /\ UNCHANGED << handlerVars, audio_queue, twilioVars, sndPc, streamsid, decoded,
                    turn, twilio_sent, rag_calls, taken, log, sts_inbox, sts_sent, sts_audio, nAgent >>

(***************************************************************************)
(* twilio_handler: asyncio.gather and the exit of the async with block.    *)
(***************************************************************************)
SomeTaskRaised == sndPc = "raised" \/ rcvPc = "raised"
AllTasksDone == sndPc = "done" /\ rcvPc = "done" /\ twPc = "done"

\* gather returns when the three tasks have returned and raises as soon as
\* one of them raises, leaving the others running; either way the async with
\* block is left and closes the agent connection.
GatherResume ==
    /\ hPc = "gather"
    /\ SomeTaskRaised \/ AllTasksDone
    /\ hPc' = IF SomeTaskRaised THEN "raised" ELSE "done"
    /\ sts_ws' = IF sts_ws = "open" THEN "closed_ok" ELSE sts_ws
    /\ UNCHANGED << audio_queue, twilioVars, sndPc, receiverVars, sts_inbox, sts_sent,
                    sts_audio, nAgent >>

(***************************************************************************)
(* Specifications.                                                         *)
(***************************************************************************)
TwilioNext ==
    \/ TwilioStart
    \/ TwilioMedia
    \/ TwilioStop
    \/ TwilioMark
    \/ TwilioMalformed
    \/ TwilioClosed

TurnNext ==
    \/ BargeIn
    \/ Extract
    \/ RagReturn
    \/ RagFail
    \/ Inject

ReceiverNext ==
    \/ RecvGetSid
    \/ RecvBinary
    \/ RecvText
    \/ TurnNext

\* A session in which the agent transport stays up until the handler closes it.
Next ==
    \/ TwilioNext
    \/ SenderSend
    \/ AgentDeliver
    \/ ReceiverNext
    \/ GatherResume

Spec == Init /\ [][Next]_vars

\* A session in which the agent transport may also be lost.
LossNext ==
    \/ Next
    \/ AgentClose
    \/ RecvEnd

LossSpec == Init /\ [][LossNext]_vars

\* The event loop runs every task that can run; the retriever answers or raises.
TaskFairness ==
    /\ WF_vars(SenderSend)
    /\ WF_vars(ReceiverNext)
    /\ WF_vars(GatherResume)

FairSpec == Spec /\ TaskFairness

FairLossSpec == LossSpec /\ TaskFairness /\ WF_vars(RecvEnd)

\* handle_text_message alone, entered with any control event, in a session
\* whose identifier "A" the receiver has taken.
TurnInit ==
    /\ hPc = "gather"
    /\ sts_ws = "open"
    /\ audio_queue = <<>>
    /\ streamsid_queue = <<>>
    /\ twPc = "iter"
    /\ twEnd = "none"
    /\ inbuffer = <<>>
    /\ sndPc = "get"
    /\ rcvPc = "barge_in"
    /\ streamsid = "A"
    /\ decoded \in AllControlEvents
    /\ turn = NoTurn
    /\ sts_inbox = <<>>
    /\ sts_sent = << [kind |-> "config"] >>
    /\ sts_audio = <<>>
    /\ twilio_sent = <<>>
    /\ received = <<>>
    /\ enqueued = <<>>
    /\ starts = << "A" >>
    /\ nAgent = 1
    /\ rag_calls = 0
    /\ taken = << TextMsg(decoded) >>
    /\ log = <<>>

TurnSpec == TurnInit /\ [][TurnNext]_vars

\* A session in which the agent has sent its first messages before the
\* telephony transport sends anything: the receiver finds them waiting once it
\* has the session identifier.
BacklogInit ==
    /\ hPc = "gather"
    /\ sts_ws = "open"
    /\ audio_queue = <<>>
    /\ streamsid_queue = <<>>
    /\ twPc = "iter"
    /\ twEnd = "none"
    /\ inbuffer = <<>>
    /\ sndPc = "get"
    /\ rcvPc = "get_sid"
    /\ streamsid = NoneVal
    /\ decoded = NoEvent
    /\ turn = NoTurn
    /\ sts_inbox \in UNION { [1..n -> AgentMsgs] : n \in 0..MaxBacklog }
    /\ sts_sent = << [kind |-> "config"] >>
    /\ sts_audio = <<>>
    /\ twilio_sent = <<>>
    /\ received = <<>>
    /\ enqueued = <<>>
    /\ starts = <<>>
    /\ nAgent = Len(sts_inbox)
    /\ rag_calls = 0
    /\ taken = <<>>
    /\ log = <<>>

BacklogNext ==
    \/ TwilioStart
    \/ ReceiverNext
    \/ GatherResume

BacklogSpec == BacklogInit /\ [][BacklogNext]_vars

(***************************************************************************)
(* What the claims speak of.                                               *)
(***************************************************************************)
\* the concatenation of a sequence of byte strings
RECURSIVE Flatten(_)
Flatten(ss) == IF ss = <<>> THEN <<>> ELSE Head(ss) \o Flatten(Tail(ss))
IsUserStartedSpeaking(d) == GetId(d, "type") = "UserStartedSpeaking"
IsControlEvent(m) == ~m.binary /\ m.json
\* What an event is, before any handling: a finalized non-empty transcript.
IsFinalTranscript(d) ==
    LET e == extract_transcript_from_deepgram(d)
    IN  e.transcript # <<>> /\ e.is_final
\* the correlation id of an event: its response_id, else its id
CorrelationId(d) == OrId(GetId(d, "response_id"), GetId(d, "id"))

UserStartsTaken ==
    SelectSeq(taken, LAMBDA m : IsControlEvent(m) /\ IsUserStartedSpeaking(m.data))
FinalsTaken ==
    SelectSeq(taken, LAMBDA m : IsControlEvent(m) /\ IsFinalTranscript(m.data))
GarbageTaken == \E i \in DOMAIN taken : ~taken[i].binary /\ ~taken[i].json
ClearsSent == SelectSeq(twilio_sent, LAMBDA e : e.event = "clear")
BinariesTaken == SelectSeq(taken, LAMBDA m : m.binary)
MediaSent == SelectSeq(twilio_sent, LAMBDA e : e.event = "media")
\* the direct text of an event: its transcript, else its text
DirectText(d) == OrText(GetText(d, "transcript"), GetText(d, "text"))
HasAlternative(d) == "alternatives" \in DOMAIN d /\ d["alternatives"] # <<>>
\* the text of an element of the alternatives list
AlternativeText(a) == OrText(GetText(a, "transcript"), GetText(a, "text"))
AlternativeFlagged(a) == GetFlag(a, "final") \/ GetFlag(a, "is_final")
\* the event with its alternatives list taken away
WithoutAlternatives(d) == [k \in DOMAIN d \ {"alternatives"} |-> d[k]]
Injections == SelectSeq(sts_sent, LAMBDA m : m.kind = "response.create")
Occurrences(tag) == Len(SelectSeq(log, LAMBDA t : t = tag))
\* 1 while the message being handled is at one of the places pcs, else 0
Handling(pcs, Test(_)) == IF rcvPc \in pcs /\ Test(decoded) THEN 1 ELSE 0

ReceiverExited == rcvPc \in {"done", "raised"}
SenderExited == sndPc # "get"
ReaderExited == twPc = "done"

(***************************************************************************)
(* C1.  Once the Telephony Reader has processed a stop event or the        *)
(* telephony transport has closed, the three loops eventually exit and     *)
(* twilio_handler completes, closing the agent connection.                 *)
(***************************************************************************)
C1_StopEndsSession ==
    (twEnd \in {"stop", "closed"})
        ~> (ReaderExited /\ SenderExited /\ ReceiverExited
            /\ hPc # "gather" /\ sts_ws # "open")

(***************************************************************************)
(* C2.  While handle_text_message is suspended in rag_retrieve, a frame    *)
(* waiting in audio_queue can be sent to the agent, and a binary agent     *)
(* message that has arrived can be forwarded to the telephony transport.   *)
(***************************************************************************)
C2_RetrievalDoesNotStallRelay ==
    rcvPc = "rag" =>
        /\ (sndPc = "get" /\ audio_queue # <<>>) => ENABLED SenderSend
        /\ (sts_inbox # <<>> /\ Head(sts_inbox).binary) => ENABLED RecvBinary

(***************************************************************************)
(* C3.  Every UserStartedSpeaking event gets exactly one clear event with  *)
(* the session identifier, sent before the transcript of that message is   *)
(* extracted, retrieved for or injected.                                   *)
(***************************************************************************)
C3_BargeInClearsFirst ==
    /\ Len(ClearsSent) =
         Len(UserStartsTaken) - Handling({"barge_in"}, IsUserStartedSpeaking)
    /\ \A i \in DOMAIN ClearsSent :
         ClearsSent[i] = [event |-> "clear", streamSid |-> starts[1]]
    /\ rcvPc = "barge_in" => log = <<>>
    /\ (IsUserStartedSpeaking(decoded) /\ rcvPc \in {"extract", "rag", "inject"})
         => log # <<>>
    /\ (IsUserStartedSpeaking(decoded) /\ log # <<>>)
         => log[1] = "clear" /\ Occurrences("clear") = 1

\* Two user-started-speaking events handled, the second now in retrieval.
C3_Witness ==
    /\ Len(ClearsSent) = 2
    /\ IsUserStartedSpeaking(decoded)
    /\ rcvPc = "rag"
    /\ log = << "clear", "extract", "rag" >>

(***************************************************************************)
(* C4.  A control event whose is_final is false never leads to a call of   *)
(* rag_retrieve nor to a response.create, whatever else it carries.        *)
(***************************************************************************)
C4_NonFinalNeverRetrieves ==
    ("is_final" \in DOMAIN decoded /\ decoded["is_final"] = FALSE)
        => (rag_calls = 0 /\ Injections = <<>>)

(***************************************************************************)
(* C5.  Each finalized non-empty transcript the receiver takes causes one  *)
(* call of rag_retrieve and one response.create with the correlation id of *)
(* that event; injections never outnumber the finalized transcripts.       *)
(***************************************************************************)
C5_OneInjectionPerFinal ==
    /\ rag_calls =
         Len(FinalsTaken) - Handling({"barge_in", "extract"}, IsFinalTranscript)
    /\ Len(Injections) =
         Len(FinalsTaken)
           - Handling({"barge_in", "extract", "rag", "inject"}, IsFinalTranscript)
    /\ Len(Injections) <= Len(FinalsTaken)
    /\ \A i \in DOMAIN Injections :
         Injections[i].response_id = CorrelationId(FinalsTaken[i].data)

\* Two finalized transcripts with different correlation ids, both injected.
C5_Witness ==
    /\ Len(Injections) = 2
    /\ Injections[1].response_id # Injections[2].response_id
    /\ rag_calls = 2

(***************************************************************************)
(* C6.  When rag_retrieve raises, handle_text_message goes on with the     *)
(* context "No relevant context.", sends the response.create, does not     *)
(* call the retriever again, and the receiver loop keeps running.          *)
(***************************************************************************)
C6_RetrievalFailureFallsBack ==
    Occurrences("rag_error") > 0 =>
        /\ rcvPc \in {"inject", "iter"}
        /\ turn.context = Fallback
        /\ Occurrences("rag") = 1
        /\ Occurrences("rag_error") = 1
        /\ rcvPc = "iter" =>
             /\ log[Len(log)] = "inject"
             /\ Injections # <<>>
             /\ Injections[Len(Injections)] =
                  ResponseCreate(CorrelationId(decoded), turn.transcript, Fallback)

\* The retrieval failed, the injection went out and a later audio message
\* has been forwarded.
C6_Witness ==
    /\ Occurrences("rag_error") = 1
    /\ rcvPc = "iter"
    /\ Injections # <<>>
    /\ taken[Len(taken)].binary

(***************************************************************************)
(* C7.  A text message that is not JSON is skipped: the receiver loop      *)
(* does not terminate on it.                                               *)
(***************************************************************************)
C7_ParseFailureSkipped == GarbageTaken => rcvPc # "raised"

(***************************************************************************)
(* C8.  After the Telephony Reader has processed a stop event nothing more *)
(* is sent on either transport.                                            *)
(***************************************************************************)
C8_NothingSentAfterStop ==
    [][twEnd = "stop" =>
         /\ sts_audio' = sts_audio
         /\ sts_sent' = sts_sent
         /\ twilio_sent' = twilio_sent]_vars

(***************************************************************************)
(* C9.  When the agent connection is lost (the receiver's iteration has    *)
(* ended, or a send on the connection has failed) the three loops          *)
(* eventually exit.                                                        *)
(***************************************************************************)
C9_AgentLossEndsSession ==
    (ReceiverExited \/ sndPc = "raised")
        ~> (ReaderExited /\ SenderExited /\ ReceiverExited)

(***************************************************************************)
(* C10.  At every point the frames enqueued so far, in order, followed by  *)
(* the bytes left in the chunk buffer are exactly the bytes of the chunks  *)
(* received so far.                                                        *)
(***************************************************************************)
C10_FramesPlusRemainderAreInput ==
    Flatten(enqueued) \o inbuffer = received

\* Two frames cut, the second across a chunk boundary, and a byte left over.
C10_Witness ==
    /\ Len(enqueued) = 2
    /\ Len(inbuffer) = 1
    /\ Len(received) = 2 * BUFFER_SIZE + 1

(***************************************************************************)
(* C11.  Whenever the chunks received so far add up to a multiple of the   *)
(* frame size, the reader has enqueued exactly total/frameSize frames,     *)
(* each of frameSize bytes, the i-th one being the i-th frameSize bytes of *)
(* the input, and the chunk buffer is empty.                               *)
(***************************************************************************)
C11_WholeFramesLeaveNothing ==
    Len(received) % BUFFER_SIZE = 0 =>
        /\ inbuffer = <<>>
        /\ Len(enqueued) = Len(received) \div BUFFER_SIZE
        /\ \A i \in DOMAIN enqueued :
             /\ Len(enqueued[i]) = BUFFER_SIZE
             /\ enqueued[i] =
                  SubSeq(received, (i - 1) * BUFFER_SIZE + 1, i * BUFFER_SIZE)

\* Two whole frames of input received, cut into two frames, nothing buffered.
C11_Witness ==
    /\ Len(received) = 2 * BUFFER_SIZE
    /\ Len(enqueued) = 2
    /\ inbuffer = <<>>

(***************************************************************************)
(* C12.  Every frame in the outbound queue, every frame ever enqueued and  *)
(* every audio message sent to the agent has exactly frameSize bytes;      *)
(* between telephony events the chunk buffer holds fewer than frameSize    *)
(* bytes; so what is left in the buffer when the reader stops has not been *)
(* sent.                                                                   *)
(***************************************************************************)
C12_OnlyFullFrames ==
    /\ \A i \in DOMAIN audio_queue : Len(audio_queue[i]) = BUFFER_SIZE
    /\ \A i \in DOMAIN enqueued : Len(enqueued[i]) = BUFFER_SIZE
    /\ \A i \in DOMAIN sts_audio : Len(sts_audio[i]) = BUFFER_SIZE
    /\ Len(inbuffer) < BUFFER_SIZE
    /\ ReaderExited =>
         Len(Flatten(sts_audio)) + Len(Flatten(audio_queue)) + Len(inbuffer)
           <= Len(received)

\* The session stopped with a remainder in the buffer, after a frame was sent
\* to the agent and with another still queued.
C12_Witness ==
    /\ twEnd = "stop"
    /\ inbuffer # <<>>
    /\ sts_audio # <<>>
    /\ audio_queue # <<>>

(***************************************************************************)
(* C13.  The audio frames sent to the agent are a prefix of the frames the *)
(* reader has sliced, in the same order: no frame is sent twice, none is   *)
(* skipped, and while sts_sender runs the frames sent followed by the      *)
(* frames still queued are the frames sliced.  Each step of the system     *)
(* sends at most one frame.                                                *)
(***************************************************************************)
C13_SentIsPrefixOfSliced ==
    /\ [](/\ Len(sts_audio) <= Len(enqueued)
          /\ sts_audio = SubSeq(enqueued, 1, Len(sts_audio))
          /\ \A i, j \in DOMAIN sts_audio : sts_audio[i] = sts_audio[j] => i = j
          /\ sndPc = "get" => sts_audio \o audio_queue = enqueued)
    /\ [][\/ sts_audio' = sts_audio
          \/ /\ audio_queue # <<>>
             /\ sts_audio' = Append(sts_audio, Head(audio_queue))]_vars

\* Two frames were queued together and both have been sent, while the receiver
\* was waiting for the retriever.
C13_Witness ==
    /\ Len(sts_audio) = 2
    /\ audio_queue = <<>>
    /\ inbuffer # <<>>
    /\ rcvPc = "rag"

(***************************************************************************)
(* C14.  The media events sent to the telephony transport are, one for     *)
(* one and in the same order, the binary messages the receiver has taken   *)
(* from the agent transport, each carrying the base64 text of that         *)
(* message's bytes, whatever control events were taken in between.         *)
(***************************************************************************)
C14_OneMediaEventPerBinary ==
    /\ Len(MediaSent) = Len(BinariesTaken)
    /\ \A i \in DOMAIN MediaSent :
         /\ MediaSent[i].media.payload = b64encode(BinariesTaken[i].data)
         /\ b64decode(MediaSent[i].media.payload) = BinariesTaken[i].data

\* Two different audio messages with a finalized transcript between them: the
\* retrieval ran, the injection went out and both media events were sent.
C14_Witness ==
    /\ Len(taken) = 3
    /\ taken[1].binary /\ taken[3].binary /\ taken[1] # taken[3]
    /\ IsControlEvent(taken[2]) /\ IsFinalTranscript(taken[2].data)
    /\ Len(Injections) = 1
    /\ Len(MediaSent) = 2

(***************************************************************************)
(* C15.  Until the reader has processed a start event the receiver stays   *)
(* suspended on the handoff: it has taken no agent message and nothing has *)
(* been sent to the telephony transport, and the same holds as long as the *)
(* receiver has not got the identifier.  The agent messages that arrive    *)
(* meanwhile stay in the transport: a message leaves it only by being      *)
(* taken by the receiver, oldest first.                                    *)
(***************************************************************************)
C15_ReceiverWaitsForIdentifier ==
    /\ [](/\ starts = <<>> => rcvPc = "get_sid"
          /\ rcvPc = "get_sid" =>
                /\ taken = <<>>
                /\ twilio_sent = <<>>
                /\ streamsid = NoneVal
          /\ Len(taken) + Len(sts_inbox) = nAgent)
    /\ [][\/ /\ taken' = taken
             /\ \/ sts_inbox' = sts_inbox
                \/ \E m \in AgentMsgs : sts_inbox' = Append(sts_inbox, m)
          \/ /\ rcvPc # "get_sid"
             /\ sts_inbox # <<>>
             /\ taken' = Append(taken, Head(sts_inbox))
             /\ sts_inbox' = Tail(sts_inbox)]_vars

\* Three messages arrived before the start event; all three have been taken
\* since, a clear event and a media event among what they caused.
C15_Witness ==
    /\ nAgent = 3
    /\ Len(taken) = 3
    /\ starts # <<>>
    /\ ClearsSent # <<>>
    /\ MediaSent # <<>>

(***************************************************************************)
(* C16.  streamsid_queue is written once in a session: it never holds more *)
(* than one identifier, and the identifiers put into it (those it holds    *)
(* and the one the receiver has taken out) are never more than one,        *)
(* however many start events the reader processes.                         *)
(***************************************************************************)
C16_HandoffWrittenOnce ==
    /\ Len(streamsid_queue) <= 1
    /\ Len(streamsid_queue) + (IF rcvPc = "get_sid" THEN 0 ELSE 1) <= 1

(***************************************************************************)
(* C17.  A malformed telephony message ends the read loop and nothing is   *)
(* read after it: the step that meets it and every later step leave the   *)
(* chunk buffer, the frames enqueued, the bytes accepted and the start     *)
(* events processed as they were, put nothing on audio_queue and nothing   *)
(* on streamsid_queue (the other tasks may still take from the queues),    *)
(* and the reader task ends without raising into twilio_handler.           *)
(***************************************************************************)
C17_MalformedEndsReading ==
    [][twEnd' = "error" =>
         /\ twPc' = "done"
         /\ inbuffer' = inbuffer
         /\ enqueued' = enqueued
         /\ received' = received
         /\ starts' = starts
         /\ \/ audio_queue' = audio_queue
            \/ audio_queue # <<>> /\ audio_queue' = Tail(audio_queue)
         /\ \/ streamsid_queue' = streamsid_queue
            \/ streamsid_queue # <<>> /\ streamsid_queue' = Tail(streamsid_queue)
         /\ twEnd = "none" => hPc' = hPc]_vars

\* The loop ended on a malformed message with a remainder buffered, after a
\* start event and a frame; the sender has forwarded the frame since.
C17_Witness ==
    /\ twEnd = "error"
    /\ inbuffer # <<>>
    /\ starts # <<>>
    /\ audio_queue = <<>>
    /\ sts_audio # <<>>

(***************************************************************************)
(* C18.  Once handle_text_message has run the extraction on an event: if   *)
(* the event's direct text (transcript, else text) is not empty, the       *)
(* result is that text, stripped, with the event's own is_final flag, and  *)
(* is what the event without its alternatives list would give; if the      *)
(* direct text is empty and there is a first alternative, the result is    *)
(* that alternative's text, stripped, and it is final when the alternative *)
(* is flagged final or is_final; with neither, the text is empty.  The     *)
(* retrieval is called with that text.                                     *)
(***************************************************************************)
C18_DirectTextBeforeAlternatives ==
    Occurrences("extract") > 0 =>
        LET e == extract_transcript_from_deepgram(decoded)
            direct == DirectText(decoded)
        IN  /\ direct # <<>> =>
                 /\ e.transcript = strip(direct)
                 /\ e.is_final = GetFlag(decoded, "is_final")
                 /\ e = extract_transcript_from_deepgram(WithoutAlternatives(decoded))
            /\ direct = <<>> /\ HasAlternative(decoded) =>
                 /\ e.transcript = strip(AlternativeText(decoded["alternatives"][1]))
                 /\ AlternativeFlagged(decoded["alternatives"][1]) => e.is_final
            /\ direct = <<>> /\ ~HasAlternative(decoded) => e.transcript = <<>>
            /\ rcvPc \in {"rag", "inject"} =>
                 /\ turn.transcript = e.transcript
                 /\ e.is_final

\* An event with the direct transcript "hi", no is_final of its own and a
\* first alternative "yo" flagged final: extracted as a partial "hi", so the
\* handler returned without retrieval.
C18_Witness ==
    /\ Occurrences("extract") = 1
    /\ GetText(decoded, "transcript") = Hi
    /\ "is_final" \notin DOMAIN decoded
    /\ HasAlternative(decoded)
    /\ decoded["alternatives"][1] = [text |-> Yo, is_final |-> TRUE]
    /\ rcvPc = "iter"
    /\ rag_calls = 0

(***************************************************************************)
(* C19.  Agent messages are handled one at a time: the calls of the        *)
(* retriever not yet followed by their injection are at most one, and that *)
(* one belongs to the message being handled; while a message is being      *)
(* handled (barge-in, extraction, retrieval, injection) the receiver takes *)
(* no other message; and the i-th injection carries the correlation id and *)
(* the transcript of the i-th finalized transcript taken.                  *)
(***************************************************************************)
C19_OneMessageAtATime ==
    /\ [](/\ rag_calls - Len(Injections) =
               (IF rcvPc \in {"rag", "inject"} THEN 1 ELSE 0)
          /\ \A i \in DOMAIN Injections :
               LET e == extract_transcript_from_deepgram(FinalsTaken[i].data)
               IN  /\ Injections[i].response_id = e.response_id
                   /\ SubSeq(Injections[i].instructions, 3, 2 + Len(e.transcript))
                        = e.transcript)
    /\ [][(rcvPc \in {"barge_in", "extract", "rag", "inject"}) =>
            /\ taken' = taken
            /\ decoded' = decoded
            /\ rag_calls' + Len(Injections') <= rag_calls + Len(Injections) + 1]_vars

\* Two finalized transcripts taken: the first is answered, the retrieval for
\* the second is in flight and a third message waits in the transport.
C19_Witness ==
    /\ Len(FinalsTaken) = 2
    /\ Len(Injections) = 1
    /\ rcvPc = "rag"
    /\ Len(sts_inbox) = 1

(***************************************************************************)
(* C20.  Every media event and every clear event sent to the telephony     *)
(* transport carries the identifier of the first start event the reader    *)
(* processed, and so does the receiver from the moment it has one: a later *)
(* start event with another identifier changes neither.                    *)
(***************************************************************************)
C20_FirstIdentifierOnEveryEvent ==
    /\ \A i \in DOMAIN twilio_sent :
         /\ twilio_sent[i].event \in {"media", "clear"}
         /\ starts # <<>>
         /\ twilio_sent[i].streamSid = starts[1]
    /\ rcvPc # "get_sid" => starts # <<>> /\ streamsid = starts[1]

\* Two start events with different identifiers were processed; a clear event
\* and a media event have been sent, and the second identifier lies unread
\* in the handoff.
C20_Witness ==
    /\ Len(starts) = 2
    /\ starts[1] # starts[2]
    /\ streamsid_queue = << starts[2] >>
    /\ ClearsSent # <<>>
    /\ MediaSent # <<>>

====
